---- MODULE Spec2Model ----
(***************************************************************************)
(* Model of the browser OAuth manager of bitski-js                         *)
(* (packages/browser/src/auth/oauth-manager.ts).                           *)
(*                                                                         *)
(* The browser main thread is single-threaded: every public call and every *)
(* callback (a delivery channel notifying, a promise reaction, a token     *)
(* endpoint reply) runs to completion, so each is one atomic action.       *)
(* Strings that matter (the scope string of an authorization request) are  *)
(* sequences of atoms: scope names, the separator " " and the separator    *)
(* "," that Array.prototype.toString puts between the items of an array.   *)
(*                                                                         *)
(* Spec      : the authorization flows of a constructed manager.           *)
(* ScopeSpec : manager constructions and the requests sign-in calls build. *)
(***************************************************************************)
EXTENDS Integers, Sequences, FiniteSets, TLC

\* ---- bounds -------------------------------------------------------------
MaxManagers == 2
MaxFlows == 2
MaxNotifications == 2

\* ---- input values -------------------------------------------------------
\* the authorization code the server issues for the request of flow f: every
\* request gets a code of its own
CodeOf(f) == f
NoCode == 0
ErrorCodes == {"access_denied", "popup_closed"}
TransportError == "transport_error"

\* options.additionalScopes: undefined, or an array of scope names
Undefined == [given |-> FALSE, items |-> <<>>]
Given(items) == [given |-> TRUE, items |-> items]
AdditionalScopesInputs ==
    {Undefined, Given(<<>>), Given(<<"email", "offline">>)}

\* AuthorizationResponse | null and AuthorizationError | null
NullResponse == [null |-> TRUE, code |-> NoCode]
Response(c) == [null |-> FALSE, code |-> c]
NullError == [null |-> TRUE, error |-> ""]
AuthError(e) == [null |-> FALSE, error |-> e]

\* ---- array elements and Array.prototype.join ------------------------------
Str(s) == [isArray |-> FALSE, str |-> s, items |-> <<>>]
Arr(items) == [isArray |-> TRUE, str |-> "", items |-> items]

RECURSIVE joinStrings(_, _)
joinStrings(items, sep) ==
    IF items = <<>> THEN <<>>
    ELSE IF Len(items) = 1 THEN <<items[1]>>
    ELSE <<items[1], sep>> \o joinStrings(Tail(items), sep)

\* elementToString of an array element: a string is itself, a nested array is its
\* items joined with ","
elementToString(e) == IF e.isArray THEN joinStrings(e.items, ",") ELSE <<e.str>>

RECURSIVE join(_, _)
join(arr, sep) ==
    IF arr = <<>> THEN <<>>
    ELSE IF Len(arr) = 1 THEN elementToString(arr[1])
    ELSE elementToString(arr[1]) \o <<sep>> \o join(Tail(arr), sep)

\* the scope names a receiver reads out of a space-joined scope string
RECURSIVE splitSpace(_, _)
splitSpace(s, cur) ==
    IF s = <<>> THEN <<cur>>
    ELSE IF s[1] = " " THEN <<cur>> \o splitSpace(Tail(s), <<>>)
    ELSE splitSpace(Tail(s), Append(cur, s[1]))

ScopeNames(s) == SelectSeq(splitSpace(s, <<>>), LAMBDA t : t # <<>>)

\* ---- state ----------------------------------------------------------------
VARIABLES
    DEFAULT_SCOPES,   \* the module-level array every manager's scopes aliases
    managers,         \* the managers constructed so far, with their options
    pendingResolver,  \* manager -> flow whose {fulfill, reject} it holds, 0 = undefined
    authHandler,      \* manager -> flow whose handler it references, 0 = undefined
    flows,            \* one record per signIn*/redirectCallback call
    handlers,         \* flow -> what its request handler has done so far
    notifications,    \* number of calls of the notification point so far
    lastCall,         \* manager -> the latest didCompleteAuthorizationFlow call
    http,             \* the direct request (token, user info, sign out) in progress
    engines,          \* Bitski.engines: network key -> engine, 0 = no entry
    engineObjs,       \* the ProviderEngine objects created so far
    lastSdkCall       \* the latest call on the Bitski object and what it returned

flowVars == <<DEFAULT_SCOPES, managers, pendingResolver, authHandler, flows,
              handlers, notifications, lastCall>>
sdkVars == <<engines, engineObjs, lastSdkCall>>
vars == <<flowVars, http, sdkVars>>

ManagerIds == 1..MaxManagers
FlowIds == 1..MaxFlows

PendingPromise == [state |-> "pending", code |-> NoCode, request |-> 0, error |-> ""]
PendingResult == [state |-> "pending", code |-> NoCode, error |-> ""]
\* nth: how many calls carrying a response or an error the manager has had
\* since its latest flow started; nulls: how many calls carrying neither;
\* error: the error code the latest call
\* carried; found: the flow whose pending entry the latest call settled,
\* 0 = none; threw: the latest call raised an exception
NoCall == [nth |-> 0, nulls |-> 0, error |-> "", found |-> 0, threw |-> FALSE]

\* ---- HTTP replies and their JSON bodies ---------------------------------------
\* the value of the "error" member of a reply body: absent, a string, or an
\* object that may have a "message" member
NoErrorMember == [kind |-> "absent", str |-> "", hasMessage |-> FALSE, message |-> ""]
ErrorString(t) == [kind |-> "string", str |-> t, hasMessage |-> FALSE, message |-> ""]
ErrorObject(t) == [kind |-> "object", str |-> "", hasMessage |-> TRUE, message |-> t]
ErrorObjectNoMessage ==
    [kind |-> "object", str |-> "", hasMessage |-> FALSE, message |-> ""]

\* a parsed body: null, or an object with an optional "error" member
JsonNull == [isNull |-> TRUE, error |-> NoErrorMember]
JsonObject(e) == [isNull |-> FALSE, error |-> e]

\* a reply body: text that JSON.parse rejects, or text that parses to json
Unparseable == [parses |-> FALSE, json |-> JsonNull]
Parsed(j) == [parses |-> TRUE, json |-> j]

Statuses == {199, 200, 299, 300, 400, 500}
Bodies ==
    {Unparseable, Parsed(JsonNull), Parsed(JsonObject(NoErrorMember)),
     Parsed(JsonObject(ErrorString("invalid_request"))),
     Parsed(JsonObject(ErrorString(""))),
     Parsed(JsonObject(ErrorObject("invalid_grant"))),
     Parsed(JsonObject(ErrorObject(""))),
     Parsed(JsonObject(ErrorObjectNoMessage))}

NoReply == [status |-> 0, body |-> Unparseable]

\* a promise's outcome: fulfilled with a value or rejected with an Error
\* that has a message
NoResult == [state |-> "pending", value |-> JsonNull, message |-> ""]
Fulfilled(j) == [state |-> "fulfilled", value |-> j, message |-> ""]
Rejected(msg) == [state |-> "rejected", value |-> JsonNull, message |-> msg]

\* no direct request has been made
NoRequest ==
    [op |-> "none", userInfoEndpoint |-> FALSE, phase |-> "idle", fetches |-> 0,
     tokenRequests |-> 0, reply |-> NoReply, result |-> NoResult]

\* the keys the engines map is read and written with
NetworkKeys == {"mainnet", "rinkeby", "kovan", "http://localhost:8545"}

\* getProvider's networkName argument: undefined, or a string
NoNetworkName == [given |-> FALSE, name |-> ""]
NetworkName(n) == [given |-> TRUE, name |-> n]
NetworkNames ==
    {NoNetworkName, NetworkName("")} \cup {NetworkName(k) : k \in NetworkKeys}

\* the window the callback page runs in: w.parent === w or not, w.opener
\* set or null
Windows == [parentIsSelf : BOOLEAN, opener : BOOLEAN]
TopWindow == [parentIsSelf |-> TRUE, opener |-> FALSE]

\* the members of OAuthProviderIntegrationType the SDK names, and the
\* authenticationIntegrationType argument left out
IntegrationTypes == {"SILENT", "POPUP", "REDIRECT"}
NoIntegrationType == "undefined"

ErrorMessages == {"Not signed in", "Internal JSON-RPC error"}

\* the latest call or engine event on the Bitski object: the networkName
\* getProvider was given and the key it looked up, the engine it returned or that emitted the error, whether
\* getProvider found that engine stopped, the error's message, the arguments
\* of signInCallback and the type it passed to the auth provider
NoSdkCall ==
    [op |-> "none", networkName |-> NoNetworkName, key |-> "", returned |-> 0,
     restarted |-> FALSE, message |-> "", given |-> NoIntegrationType,
     window |-> TopWindow, passed |-> "none"]

\* new Bitski(clientId): no engine yet
SdkConstructed ==
    /\ engines = [k \in NetworkKeys |-> 0]
    /\ engineObjs = <<>>
    /\ lastSdkCall = NoSdkCall

\* the module has been loaded, no manager has been constructed
ModuleLoaded ==
    /\ http = NoRequest
    /\ SdkConstructed
    /\ DEFAULT_SCOPES = <<Str("openid")>>
    /\ managers = <<>>
    /\ pendingResolver = [m \in ManagerIds |-> 0]
    /\ authHandler = [m \in ManagerIds |-> 0]
    /\ flows = <<>>
    /\ handlers = [f \in FlowIds |-> "idle"]
    /\ notifications = 0
    /\ lastCall = [m \in ManagerIds |-> NoCall]

\* the state after one new OAuthManager({clientId, redirectUri}): pending
\* entries, handlers and notifiers are per manager, so the flows of one
\* manager are those of any
Init ==
    /\ http = NoRequest
    /\ SdkConstructed
    /\ DEFAULT_SCOPES = <<Str("openid"), Arr(<<"offline">>)>>
    /\ managers = <<[additionalScopes |-> Undefined]>>
    /\ pendingResolver = [m \in ManagerIds |-> 0]
    /\ authHandler = [m \in ManagerIds |-> 0]
    /\ flows = <<>>
    /\ handlers = [f \in FlowIds |-> "idle"]
    /\ notifications = 0
    /\ lastCall = [m \in ManagerIds |-> NoCall]

\* one manager has been constructed, with or without a user-info endpoint in
\* its configuration, and has made no call yet
HttpInit ==
    /\ \E endpoint \in BOOLEAN : http = [NoRequest EXCEPT !.userInfoEndpoint = endpoint]
    /\ SdkConstructed
    /\ DEFAULT_SCOPES = <<Str("openid"), Arr(<<"offline">>)>>
    /\ managers = <<[additionalScopes |-> Undefined]>>
    /\ pendingResolver = [m \in ManagerIds |-> 0]
    /\ authHandler = [m \in ManagerIds |-> 0]
    /\ flows = <<>>
    /\ handlers = [f \in FlowIds |-> "idle"]
    /\ notifications = 0
    /\ lastCall = [m \in ManagerIds |-> NoCall]

\* this.scopes = DEFAULT_SCOPES stores a reference: reading this.scopes of
\* any manager reads the shared array
scopes(m) == DEFAULT_SCOPES

\* ---- constructor ------------------------------------------------------------
Constructor(options) ==
    /\ Len(managers) < MaxManagers
    /\ LET additionalScopes ==
               IF options.given THEN options.items ELSE <<"offline">>
       IN  DEFAULT_SCOPES' = Append(DEFAULT_SCOPES, Arr(additionalScopes))
    /\ managers' = Append(managers, [additionalScopes |-> options])
    /\ UNCHANGED <<pendingResolver, authHandler, flows, handlers,
                   notifications, lastCall, http, sdkVars>>

\* ---- request factories ------------------------------------------------------
\* variant: the request carries only the additional scopes
createAuthRequest_AdditionalOnly(m) == join(Tail(scopes(m)), " ")

createAuthRequest(m) == join(scopes(m), " ")

requestAccessToken(m, code) == [state |-> "exchanging", code |-> code, error |-> ""]

\* ---- starting a flow ----------------------------------------------------------
\* new Promise((fulfill, reject) => { this.pendingResolver = {fulfill, reject} })
\* overwrites the slot
NewFlow(m, kind, scope) ==
    [mgr |-> m, kind |-> kind, scope |-> scope, promise |-> PendingPromise,
     result |-> PendingResult, supersededBy |-> 0]

\* the flow whose resolvers the slot held is recorded as superseded by new
Supersede(fs, old, new) ==
    IF old = 0 THEN fs ELSE [fs EXCEPT ![old].supersededBy = new]

\* fulfill / reject of a promise executor: only the first call settles the
\* promise, later calls are no-ops
Settle(fs, f, value) ==
    IF fs[f].promise.state = "pending" THEN [fs EXCEPT ![f].promise = value] ELSE fs

StartFlow(m, kind, scope) ==
    /\ m \in 1..Len(managers)
    /\ Len(flows) < MaxFlows
    /\ flows' = Append(Supersede(flows, pendingResolver[m], Len(flows) + 1),
                       NewFlow(m, kind, scope))
    /\ pendingResolver' = [pendingResolver EXCEPT ![m] = Len(flows) + 1]
    /\ authHandler' = [authHandler EXCEPT ![m] = Len(flows) + 1]
    /\ lastCall' = [lastCall EXCEPT ![m] = NoCall]
    /\ UNCHANGED <<http, sdkVars, DEFAULT_SCOPES, managers, handlers, notifications>>

\* variant: a pending entry that is already present is kept
\* (this.pendingResolver = this.pendingResolver || {fulfill, reject})
signInPopup_KeepsOldEntry(m) ==
    /\ m \in 1..Len(managers)
    /\ Len(flows) < MaxFlows
    /\ flows' = Append(Supersede(flows, pendingResolver[m], Len(flows) + 1),
                       NewFlow(m, "popup", createAuthRequest(m)))
    /\ pendingResolver' = [pendingResolver EXCEPT
                             ![m] = IF @ # 0 THEN @ ELSE Len(flows) + 1]
    /\ authHandler' = [authHandler EXCEPT ![m] = Len(flows) + 1]
    /\ lastCall' = [lastCall EXCEPT ![m] = NoCall]
    /\ UNCHANGED <<http, sdkVars, DEFAULT_SCOPES, managers, handlers, notifications>>

signInPopup(m) == StartFlow(m, "popup", createAuthRequest(m))

signInRedirect(m) == StartFlow(m, "redirect", createAuthRequest(m))

redirectCallback(m) == StartFlow(m, "callback", <<>>)

\* ---- the notification point -----------------------------------------------------
\* variant: the success branch does not clear the pending entry
didCompleteAuthorizationFlow_KeepsEntryOnFulfill(m, request, response, errorResponse) ==
    LET f == pendingResolver[m]
        payload == ~response.null \/ ~errorResponse.null
        call == [nth |-> lastCall[m].nth + (IF payload THEN 1 ELSE 0),
                 nulls |-> lastCall[m].nulls + (IF payload THEN 0 ELSE 1),
                 error |-> errorResponse.error, found |-> 0, threw |-> FALSE]
    IN  IF f # 0 /\ ~response.null
        THEN /\ flows' = Settle(flows, f,
                            [state |-> "fulfilled", code |-> response.code,
                             request |-> request, error |-> ""])
             /\ pendingResolver' = pendingResolver
             /\ lastCall' = [lastCall EXCEPT ![m] = [call EXCEPT !.found = f]]
        ELSE IF f # 0 /\ ~errorResponse.null
        THEN /\ flows' = Settle(flows, f,
                            [state |-> "rejected", code |-> NoCode,
                             request |-> request, error |-> errorResponse.error])
             /\ pendingResolver' = [pendingResolver EXCEPT ![m] = 0]
             /\ lastCall' = [lastCall EXCEPT ![m] = [call EXCEPT !.found = f]]
        ELSE /\ lastCall' = [lastCall EXCEPT ![m] = call]
             /\ UNCHANGED <<flows, pendingResolver>>

\* variant: the error branch does not clear the pending entry
didCompleteAuthorizationFlow_KeepsEntryOnReject(m, request, response, errorResponse) ==
    LET f == pendingResolver[m]
        payload == ~response.null \/ ~errorResponse.null
        call == [nth |-> lastCall[m].nth + (IF payload THEN 1 ELSE 0),
                 nulls |-> lastCall[m].nulls + (IF payload THEN 0 ELSE 1),
                 error |-> errorResponse.error, found |-> 0, threw |-> FALSE]
    IN  IF f # 0 /\ ~response.null
        THEN /\ flows' = Settle(flows, f,
                            [state |-> "fulfilled", code |-> response.code,
                             request |-> request, error |-> ""])
             /\ pendingResolver' = [pendingResolver EXCEPT ![m] = 0]
             /\ lastCall' = [lastCall EXCEPT ![m] = [call EXCEPT !.found = f]]
        ELSE IF f # 0 /\ ~errorResponse.null
        THEN /\ flows' = Settle(flows, f,
                            [state |-> "rejected", code |-> NoCode,
                             request |-> request, error |-> errorResponse.error])
             /\ pendingResolver' = pendingResolver
             /\ lastCall' = [lastCall EXCEPT ![m] = [call EXCEPT !.found = f]]
        ELSE /\ lastCall' = [lastCall EXCEPT ![m] = call]
             /\ UNCHANGED <<flows, pendingResolver>>

\* variant: the error branch rejects with a fixed message instead of
\* errorResponse.error
didCompleteAuthorizationFlow_GenericError(m, request, response, errorResponse) ==
    LET f == pendingResolver[m]
        payload == ~response.null \/ ~errorResponse.null
        call == [nth |-> lastCall[m].nth + (IF payload THEN 1 ELSE 0),
                 nulls |-> lastCall[m].nulls + (IF payload THEN 0 ELSE 1),
                 error |-> errorResponse.error, found |-> 0, threw |-> FALSE]
    IN  IF f # 0 /\ ~response.null
        THEN /\ flows' = Settle(flows, f,
                            [state |-> "fulfilled", code |-> response.code,
                             request |-> request, error |-> ""])
             /\ pendingResolver' = [pendingResolver EXCEPT ![m] = 0]
             /\ lastCall' = [lastCall EXCEPT ![m] = [call EXCEPT !.found = f]]
        ELSE IF f # 0 /\ ~errorResponse.null
        THEN /\ flows' = Settle(flows, f,
                            [state |-> "rejected", code |-> NoCode,
                             request |-> request, error |-> "Authorization failed"])
             /\ pendingResolver' = [pendingResolver EXCEPT ![m] = 0]
             /\ lastCall' = [lastCall EXCEPT ![m] = [call EXCEPT !.found = f]]
        ELSE /\ lastCall' = [lastCall EXCEPT ![m] = call]
             /\ UNCHANGED <<flows, pendingResolver>>

\* variant: the error branch clears the pending entry and does not reject
didCompleteAuthorizationFlow_NoRejectOnError(m, request, response, errorResponse) ==
    LET f == pendingResolver[m]
        payload == ~response.null \/ ~errorResponse.null
        call == [nth |-> lastCall[m].nth + (IF payload THEN 1 ELSE 0),
                 nulls |-> lastCall[m].nulls + (IF payload THEN 0 ELSE 1),
                 error |-> errorResponse.error, found |-> 0, threw |-> FALSE]
    IN  IF f # 0 /\ ~response.null
        THEN /\ flows' = Settle(flows, f,
                            [state |-> "fulfilled", code |-> response.code,
                             request |-> request, error |-> ""])
             /\ pendingResolver' = [pendingResolver EXCEPT ![m] = 0]
             /\ lastCall' = [lastCall EXCEPT ![m] = [call EXCEPT !.found = f]]
        ELSE IF f # 0 /\ ~errorResponse.null
        THEN /\ flows' = flows
             /\ pendingResolver' = [pendingResolver EXCEPT ![m] = 0]
             /\ lastCall' = [lastCall EXCEPT ![m] = [call EXCEPT !.found = f]]
        ELSE /\ lastCall' = [lastCall EXCEPT ![m] = call]
             /\ UNCHANGED <<flows, pendingResolver>>

\* variant: a call that carries neither a response nor an error clears the
\* pending entry
didCompleteAuthorizationFlow_ClearsEntryOnEmpty(m, request, response, errorResponse) ==
    LET f == pendingResolver[m]
        payload == ~response.null \/ ~errorResponse.null
        call == [nth |-> lastCall[m].nth + (IF payload THEN 1 ELSE 0),
                 nulls |-> lastCall[m].nulls + (IF payload THEN 0 ELSE 1),
                 error |-> errorResponse.error, found |-> 0, threw |-> FALSE]
    IN  IF f # 0 /\ ~response.null
        THEN /\ flows' = Settle(flows, f,
                            [state |-> "fulfilled", code |-> response.code,
                             request |-> request, error |-> ""])
             /\ pendingResolver' = [pendingResolver EXCEPT ![m] = 0]
             /\ lastCall' = [lastCall EXCEPT ![m] = [call EXCEPT !.found = f]]
        ELSE IF f # 0 /\ ~errorResponse.null
        THEN /\ flows' = Settle(flows, f,
                            [state |-> "rejected", code |-> NoCode,
                             request |-> request, error |-> errorResponse.error])
             /\ pendingResolver' = [pendingResolver EXCEPT ![m] = 0]
             /\ lastCall' = [lastCall EXCEPT ![m] = [call EXCEPT !.found = f]]
        ELSE /\ lastCall' = [lastCall EXCEPT ![m] = call]
             /\ pendingResolver' = [pendingResolver EXCEPT ![m] = 0]
             /\ UNCHANGED flows

didCompleteAuthorizationFlow(m, request, response, errorResponse) ==
    LET f == pendingResolver[m]
        payload == ~response.null \/ ~errorResponse.null
        call == [nth |-> lastCall[m].nth + (IF payload THEN 1 ELSE 0),
                 nulls |-> lastCall[m].nulls + (IF payload THEN 0 ELSE 1),
                 error |-> errorResponse.error, found |-> 0, threw |-> FALSE]
    IN  IF f # 0 /\ ~response.null
        THEN /\ flows' = Settle(flows, f,
                            [state |-> "fulfilled", code |-> response.code,
                             request |-> request, error |-> ""])
             /\ pendingResolver' = [pendingResolver EXCEPT ![m] = 0]
             /\ lastCall' = [lastCall EXCEPT ![m] = [call EXCEPT !.found = f]]
        ELSE IF f # 0 /\ ~errorResponse.null
        THEN /\ flows' = Settle(flows, f,
                            [state |-> "rejected", code |-> NoCode,
                             request |-> request, error |-> errorResponse.error])
             /\ pendingResolver' = [pendingResolver EXCEPT ![m] = 0]
             /\ lastCall' = [lastCall EXCEPT ![m] = [call EXCEPT !.found = f]]
        ELSE /\ lastCall' = [lastCall EXCEPT ![m] = call]
             /\ UNCHANGED <<flows, pendingResolver>>

\* ---- delivery channels ----------------------------------------------------------
\* what the delivery channel of flow f can hand to the notifier: a response
\* to its request, an error, or neither. The handler of a signInRedirect
\* flow sends the window away and can only report a failure it meets before
\* that; the response arrives in the page that calls redirectCallback.
Outcomes(f) ==
    (IF f \in 1..Len(flows) /\ flows[f].kind = "redirect"
     THEN {}
     ELSE {<<Response(CodeOf(f)), NullError>>})
      \cup {<<NullResponse, AuthError(e)>> : e \in ErrorCodes}
      \cup {<<NullResponse, NullError>>}

\* The handler of flow f was given its manager's notifier, whose listener is
\* that manager's didCompleteAuthorizationFlow; it passes its own request.
ChannelNotify(f, response, errorResponse) ==
    /\ f \in 1..Len(flows)
    /\ handlers[f] # "noResult"
    /\ notifications < MaxNotifications
    /\ handlers' = [handlers EXCEPT ![f] =
                       IF response.null /\ errorResponse.null /\ @ # "reported"
                       THEN "notified" ELSE "reported"]
    /\ notifications' = notifications + 1
    /\ didCompleteAuthorizationFlow(flows[f].mgr, f, response, errorResponse)
    /\ UNCHANGED <<http, sdkVars, DEFAULT_SCOPES, managers, authHandler>>

\* completeAuthorizationRequestIfPossible finds nothing to complete and
\* does not call the notifier
ChannelNoResult(f) ==
    /\ f \in 1..Len(flows)
    /\ flows[f].kind = "callback"
    /\ handlers[f] = "idle"
    /\ handlers' = [handlers EXCEPT ![f] = "noResult"]
    /\ UNCHANGED <<http, sdkVars, DEFAULT_SCOPES, managers, pendingResolver, authHandler,
                   flows, notifications, lastCall>>

\* ---- promise.then((response) => this.requestAccessToken(response.code)) -------
\* variant: the callback is registered for rejection as well
\* (promise.then(cb, cb)), so a rejected authorization starts an exchange
thenReaction_AlsoOnReject(f) ==
    /\ f \in 1..Len(flows)
    /\ flows[f].kind \in {"popup", "callback"}
    /\ flows[f].promise.state # "pending"
    /\ flows[f].result.state = "pending"
    /\ flows' = [flows EXCEPT ![f].result =
                    requestAccessToken(flows[f].mgr, flows[f].promise.code)]
    /\ UNCHANGED <<http, sdkVars, DEFAULT_SCOPES, managers, pendingResolver, authHandler,
                   handlers, notifications, lastCall>>

thenReaction(f) ==
    /\ f \in 1..Len(flows)
    /\ flows[f].kind \in {"popup", "callback"}
    /\ flows[f].promise.state # "pending"
    /\ flows[f].result.state = "pending"
    /\ flows' = [flows EXCEPT ![f].result =
                    IF flows[f].promise.state = "fulfilled"
                    THEN requestAccessToken(flows[f].mgr, flows[f].promise.code)
                    ELSE [state |-> "rejected", code |-> NoCode,
                          error |-> flows[f].promise.error]]
    /\ UNCHANGED <<http, sdkVars, DEFAULT_SCOPES, managers, pendingResolver, authHandler,
                   handlers, notifications, lastCall>>

\* ---- tokenHandler.performTokenRequest settles --------------------------------
\* variant: a failed exchange is also reported through the notification point
TokenReply_ThroughNotifier(f, ok) ==
    /\ f \in 1..Len(flows)
    /\ flows[f].result.state = "exchanging"
    /\ IF ok
       THEN /\ flows' = [flows EXCEPT ![f].result = [@ EXCEPT !.state = "fulfilled"]]
            /\ UNCHANGED <<pendingResolver, notifications, lastCall>>
       ELSE LET m == flows[f].mgr
                g == pendingResolver[m]
                rejected == [flows EXCEPT ![f].result =
                               [@ EXCEPT !.state = "rejected", !.error = TransportError]]
            IN  /\ flows' = IF g = 0 THEN rejected
                            ELSE Settle(rejected, g,
                                   [state |-> "rejected", code |-> NoCode,
                                    request |-> f, error |-> TransportError])
                /\ pendingResolver' = [pendingResolver EXCEPT ![m] = 0]
                /\ notifications' = notifications + 1
                /\ lastCall' = [lastCall EXCEPT ![m] =
                                  [nth |-> @.nth + 1, nulls |-> @.nulls,
                                   error |-> TransportError,
                                   found |-> g, threw |-> FALSE]]
    /\ UNCHANGED <<http, sdkVars, DEFAULT_SCOPES, managers, authHandler, handlers>>

TokenReply(f, ok) ==
    /\ f \in 1..Len(flows)
    /\ flows[f].result.state = "exchanging"
    /\ flows' = [flows EXCEPT ![f].result =
                    IF ok THEN [@ EXCEPT !.state = "fulfilled"]
                    ELSE [@ EXCEPT !.state = "rejected", !.error = TransportError]]
    /\ UNCHANGED <<http, sdkVars, DEFAULT_SCOPES, managers, pendingResolver, authHandler,
                   handlers, notifications, lastCall>>

\* ---- direct requests ------------------------------------------------------------
\* JavaScript truthiness of json.error and of json.error.message
ErrorTruthy(j) ==
    ~j.isNull /\ (j.error.kind = "object" \/ (j.error.kind = "string" /\ j.error.str # ""))
MessageTruthy(j) ==
    ErrorTruthy(j) /\ j.error.kind = "object" /\ j.error.hasMessage /\ j.error.message # ""

\* the message of new Error(json.error): a string as it is, an object by
\* its String() conversion
ErrorToMessage(e) == IF e.kind = "string" THEN e.str ELSE "[object Object]"

\* variant: the status is tested before the body is parsed, so a 2xx reply
\* with an unparseable body is returned as a success
parseResponse_StatusFirst(status, body) ==
    IF status >= 200 /\ status < 300 THEN Fulfilled(body.json)
    ELSE IF ~body.parses
    THEN Rejected("Unknown error. Could not parse error response")
    ELSE IF MessageTruthy(body.json) THEN Rejected(body.json.error.message)
    ELSE IF ErrorTruthy(body.json) THEN Rejected(ErrorToMessage(body.json.error))
    ELSE Rejected("Unknown error")

parseResponse(status, body) ==
    IF ~body.parses
    THEN Rejected("Unknown error. Could not parse error response")
    ELSE IF status >= 200 /\ status < 300 THEN Fulfilled(body.json)
    ELSE IF MessageTruthy(body.json) THEN Rejected(body.json.error.message)
    ELSE IF ErrorTruthy(body.json) THEN Rejected(ErrorToMessage(body.json.error))
    ELSE Rejected("Unknown error")

\* the promise of tokenHandler.performTokenRequest, a BaseTokenRequestHandler
\* over a FetchRequestor of @openid/appauth: a reply outside [200,300) is
\* rejected with the requestor's own error, a 2xx body is parsed with
\* response.json() and a parse failure is passed on as it is, a parsed body
\* with an error member is rejected with the handler's own error
tokenHandlerResult(status, body) ==
    IF ~(status >= 200 /\ status < 300) THEN Rejected("AppAuthError: http status")
    ELSE IF ~body.parses THEN Rejected("SyntaxError")
    ELSE IF body.json.isNull \/ body.json.error.kind # "absent"
    THEN Rejected("AppAuthError: token error")
    ELSE Fulfilled(body.json)

\* variant: the endpoint is not checked before fetch is called
requestUserInfo_NoEndpointCheck ==
    /\ http.phase = "idle"
    /\ http' = [http EXCEPT !.op = "requestUserInfo", !.phase = "fetching",
                            !.fetches = @ + 1]
    /\ UNCHANGED <<flowVars, sdkVars>>

requestUserInfo ==
    /\ http.phase = "idle"
    /\ http' = IF ~http.userInfoEndpoint
               THEN [http EXCEPT !.op = "requestUserInfo", !.phase = "done",
                                 !.result = Rejected("Could not find userinfo endpoint")]
               ELSE [http EXCEPT !.op = "requestUserInfo", !.phase = "fetching",
                                 !.fetches = @ + 1]
    /\ UNCHANGED <<flowVars, sdkVars>>

requestSignOut ==
    /\ http.phase = "idle"
    /\ http' = [http EXCEPT !.op = "requestSignOut", !.phase = "fetching",
                            !.fetches = @ + 1]
    /\ UNCHANGED <<flowVars, sdkVars>>

\* requestAccessToken(code) and refreshAccessToken(refreshToken) called
\* directly: both hand a token request to the token handler
performTokenRequest(op) ==
    /\ http.phase = "idle"
    /\ http' = [http EXCEPT !.op = op, !.phase = "tokenRequest",
                            !.tokenRequests = @ + 1]
    /\ UNCHANGED <<flowVars, sdkVars>>

\* fetch(...).then((response) => this.parseResponse(response))
FetchReplies(status, body) ==
    /\ http.phase = "fetching"
    /\ http' = [http EXCEPT !.phase = "done",
                            !.reply = [status |-> status, body |-> body],
                            !.result = parseResponse(status, body)]
    /\ UNCHANGED <<flowVars, sdkVars>>

\* the promise returned by performTokenRequest settles and is the promise
\* the caller holds
TokenEndpointReplies(status, body) ==
    /\ http.phase = "tokenRequest"
    /\ http' = [http EXCEPT !.phase = "done",
                            !.reply = [status |-> status, body |-> body],
                            !.result = tokenHandlerResult(status, body)]
    /\ UNCHANGED <<flowVars, sdkVars>>

HttpNext ==
    \/ requestUserInfo
    \/ requestSignOut
    \/ \E op \in {"requestAccessToken", "refreshAccessToken"} : performTokenRequest(op)
    \/ \E status \in Statuses : \E body \in Bodies : FetchReplies(status, body)
    \/ \E status \in Statuses : \E body \in Bodies : TokenEndpointReplies(status, body)

HttpSpec == HttpInit /\ [][HttpNext]_vars

\* ---- the Bitski object ------------------------------------------------------------
\* networkName || 'mainnet': undefined and '' are both false
EngineKey(networkName) ==
    IF networkName.given /\ networkName.name # "" THEN networkName.name ELSE "mainnet"

\* the switch of getProvider: mainnet, rinkeby, kovan and undefined get a
\* Bitski engine, any other string a third-party engine
EngineKind(networkName) ==
    IF ~networkName.given \/ networkName.name \in {"mainnet", "rinkeby", "kovan"}
    THEN "bitski" ELSE "thirdParty"

\* createEngine: a new engine, started
createEngine(key, kind) == [key |-> key, kind |-> kind, running |-> TRUE]

\* variant: the map is read with networkName itself, so an omitted name
\* finds no engine
getProvider_LookupByName(networkName) ==
    LET key == EngineKey(networkName)
        existingProvider == IF networkName.given THEN engines[key] ELSE 0
        call == [NoSdkCall EXCEPT !.op = "getProvider", !.networkName = networkName,
                                  !.key = key]
    IN  /\ key \in NetworkKeys
        /\ IF existingProvider # 0
           THEN /\ engineObjs' = [engineObjs EXCEPT ![existingProvider].running = TRUE]
                /\ engines' = engines
                /\ lastSdkCall' = [call EXCEPT !.returned = existingProvider,
                                               !.restarted = ~engineObjs[existingProvider].running]
           ELSE /\ engineObjs' = Append(engineObjs, createEngine(key, EngineKind(networkName)))
                /\ engines' = [engines EXCEPT ![key] = Len(engineObjs) + 1]
                /\ lastSdkCall' = [call EXCEPT !.returned = Len(engineObjs) + 1]
        /\ UNCHANGED <<flowVars, http>>

\* variant: an engine found in the map is returned as it is, without start()
getProvider_NoRestart(networkName) ==
    LET key == EngineKey(networkName)
        existingProvider == engines[key]
        call == [NoSdkCall EXCEPT !.op = "getProvider", !.networkName = networkName,
                                  !.key = key]
    IN  /\ key \in NetworkKeys
        /\ IF existingProvider # 0
           THEN /\ engineObjs' = engineObjs
                /\ engines' = engines
                /\ lastSdkCall' = [call EXCEPT !.returned = existingProvider,
                                               !.restarted = ~engineObjs[existingProvider].running]
           ELSE /\ engineObjs' = Append(engineObjs, createEngine(key, EngineKind(networkName)))
                /\ engines' = [engines EXCEPT ![key] = Len(engineObjs) + 1]
                /\ lastSdkCall' = [call EXCEPT !.returned = Len(engineObjs) + 1]
        /\ UNCHANGED <<flowVars, http>>

getProvider(networkName) ==
    LET key == EngineKey(networkName)
        existingProvider == engines[key]
        call == [NoSdkCall EXCEPT !.op = "getProvider", !.networkName = networkName,
                                  !.key = key]
    IN  /\ key \in NetworkKeys
        /\ IF existingProvider # 0
           THEN /\ engineObjs' = [engineObjs EXCEPT ![existingProvider].running = TRUE]
                /\ engines' = engines
                /\ lastSdkCall' = [call EXCEPT !.returned = existingProvider,
                                               !.restarted = ~engineObjs[existingProvider].running]
           ELSE /\ engineObjs' = Append(engineObjs, createEngine(key, EngineKind(networkName)))
                /\ engines' = [engines EXCEPT ![key] = Len(engineObjs) + 1]
                /\ lastSdkCall' = [call EXCEPT !.returned = Len(engineObjs) + 1]
        /\ UNCHANGED <<flowVars, http>>

\* this.engines.forEach(engine => engine.stop())
signOut ==
    /\ engineObjs' = [e \in 1..Len(engineObjs) |->
                         IF \E k \in NetworkKeys : engines[k] = e
                         THEN [engineObjs[e] EXCEPT !.running = FALSE]
                         ELSE engineObjs[e]]
    /\ lastSdkCall' = [NoSdkCall EXCEPT !.op = "signOut"]
    /\ UNCHANGED <<flowVars, http, engines>>

\* engine.on('error', error => { if (error.message === 'Not signed in') engine.stop() })
EngineError(e, message) ==
    /\ e \in 1..Len(engineObjs)
    /\ engineObjs' = IF message = "Not signed in"
                     THEN [engineObjs EXCEPT ![e].running = FALSE]
                     ELSE engineObjs
    /\ lastSdkCall' = [NoSdkCall EXCEPT !.op = "engineError", !.returned = e,
                                        !.message = message]
    /\ UNCHANGED <<flowVars, http, engines>>

\* variant: an opener is looked at before the parent
assumedCallbackType_OpenerFirst(w) ==
    IF w.opener THEN "POPUP"
    ELSE IF ~w.parentIsSelf THEN "SILENT"
    ELSE "REDIRECT"

assumedCallbackType(w) ==
    IF ~w.parentIsSelf THEN "SILENT"
    ELSE IF w.opener THEN "POPUP"
    ELSE "REDIRECT"

\* authenticationIntegrationType || this.assumedCallbackType(window)
signInCallback(authenticationIntegrationType, w) ==
    /\ lastSdkCall' = [NoSdkCall EXCEPT
                         !.op = "signInCallback",
                         !.given = authenticationIntegrationType,
                         !.window = w,
                         !.passed = IF authenticationIntegrationType # NoIntegrationType
                                    THEN authenticationIntegrationType
                                    ELSE assumedCallbackType(w)]
    /\ UNCHANGED <<flowVars, http, engines, engineObjs>>

SdkNext ==
    \/ \E networkName \in NetworkNames : getProvider(networkName)
    \/ signOut
    \/ \E e \in 1..Len(engineObjs) : \E message \in ErrorMessages : EngineError(e, message)
    \/ \E t \in IntegrationTypes \cup {NoIntegrationType} : \E w \in Windows :
           signInCallback(t, w)

SdkSpec == ModuleLoaded /\ [][SdkNext]_vars

\* ---- specification --------------------------------------------------------------
\* constructions and the requests the sign-in calls build
ScopeNext ==
    \/ \E options \in AdditionalScopesInputs : Constructor(options)
    \/ \E m \in ManagerIds : signInPopup(m)
    \/ \E m \in ManagerIds : signInRedirect(m)
    \/ \E m \in ManagerIds : redirectCallback(m)

ScopeSpec == ModuleLoaded /\ [][ScopeNext]_vars

\* the authorization flows of managers that have been constructed
Next ==
    \/ \E m \in ManagerIds : signInPopup(m)
    \/ \E m \in ManagerIds : signInRedirect(m)
    \/ \E m \in ManagerIds : redirectCallback(m)
    \/ \E f \in FlowIds : \E o \in Outcomes(f) : ChannelNotify(f, o[1], o[2])
    \/ \E f \in FlowIds : ChannelNoResult(f)
    \/ \E f \in FlowIds : thenReaction(f)
    \/ \E f \in FlowIds : \E ok \in BOOLEAN : TokenReply(f, ok)

Spec == Init /\ [][Next]_vars

\* a promise reaction that is queued runs, and the token endpoint replies to
\* a request it was sent
Fairness ==
    \A f \in FlowIds :
        /\ WF_vars(thenReaction(f))
        /\ WF_vars(\E ok \in BOOLEAN : TokenReply(f, ok))

FairSpec == Spec /\ Fairness

\* ---- helpers for the properties -------------------------------------------------
Started == 1..Len(flows)
Range(seq) == {seq[i] : i \in 1..Len(seq)}
Settled(f) == flows[f].promise.state # "pending"

\* the token exchange of flow f has been started
ExchangeStarted(f) ==
    \/ flows[f].result.state \in {"exchanging", "fulfilled"}
    \/ flows[f].result.state = "rejected" /\ flows[f].result.error = TransportError

\* nothing of flow f itself is left to run
Quiescent(f) ==
    /\ ~ENABLED thenReaction(f)
    /\ ~ENABLED (\E ok \in BOOLEAN : TokenReply(f, ok))

\* ---- C1 -------------------------------------------------------------------------
\* C1: when the notification point is called with a response or an error a
\* second (or later) time since the manager's latest flow started, that call
\* finds no pending entry, changes no promise and raises no exception; and a
\* promise that is settled keeps the value of the call that settled it.
IdempotentCompletion ==
    [][ /\ \A m \in ManagerIds :
             (lastCall[m].nth >= 1 /\ lastCall'[m].nth = lastCall[m].nth + 1)
                => /\ pendingResolver[m] = 0
                   /\ pendingResolver'[m] = 0
                   /\ flows' = flows
                   /\ lastCall'[m].found = 0
                   /\ ~lastCall'[m].threw
        /\ \A f \in Started : Settled(f) => flows'[f].promise = flows[f].promise
      ]_vars

\* a manager whose flow was settled by one call has had a second call with a
\* response or an error
IdempotentCompletionWitness ==
    \E m \in ManagerIds :
        /\ lastCall[m].nth = 2
        /\ \E f \in Started : flows[f].mgr = m /\ Settled(f) /\ flows[f].supersededBy = 0

\* ---- C2 -------------------------------------------------------------------------
\* C2: a signInPopup flow whose pending entry was replaced by a later
\* signInPopup call on the same manager is referenced by neither the pending
\* entry nor the handler field any more, its promise and the promise
\* returned to its caller stay pending, whatever happens to the new flow;
\* the slot holds the new flow's entry until that flow is settled or replaced.
SupersededPopupStaysUnsettled ==
    \A f \in Started :
        LET g == flows[f].supersededBy
            m == flows[f].mgr
        IN  (flows[f].kind = "popup" /\ g # 0 /\ flows[g].kind = "popup")
               => /\ flows[f].promise.state = "pending"
                  /\ flows[f].result.state = "pending"
                  /\ pendingResolver[m] # f
                  /\ authHandler[m] # f
                  /\ flows[g].mgr = m
                  /\ (~Settled(g) /\ flows[g].supersededBy = 0)
                        => pendingResolver[m] = g

\* the new popup flow has been resolved while the first one is superseded
SupersededPopupWitness ==
    \E f \in Started :
        /\ flows[f].kind = "popup"
        /\ flows[f].supersededBy # 0
        /\ flows[flows[f].supersededBy].kind = "popup"
        /\ flows[flows[f].supersededBy].promise.state = "fulfilled"
        /\ flows[f].promise.state = "pending"

ChannelCorrelatesToOwnFlow ==
    \A a \in Started :
        LET b == flows[a].supersededBy
        IN  b # 0 => /\ flows[b].promise.request # a
                     /\ (ExchangeStarted(b) => flows[b].result.code # CodeOf(a))

\* ---- C5 -------------------------------------------------------------------------
NoResponseError == "no_response"

\* C5: a redirectCallback flow whose channel found no response to report,
\* once nothing of the flow is left to run, has rejected the promise it
\* returned with the "no response" condition.
CallbackWithoutResponseRejects ==
    \A f \in Started :
        (flows[f].kind = "callback" /\ handlers[f] = "noResult" /\ Quiescent(f))
           => /\ flows[f].result.state = "rejected"
              /\ flows[f].result.error = NoResponseError

\* ---- C6 -------------------------------------------------------------------------
\* the flows whose resolvers manager m holds
PendingEntries(m) == {f \in Started : flows[f].mgr = m /\ pendingResolver[m] = f}

\* what the slot holds in every state
PendingEntryInvariant ==
    \A m \in ManagerIds :
        /\ Cardinality(PendingEntries(m)) <= 1
        /\ pendingResolver[m] # 0
              => /\ pendingResolver[m] \in PendingEntries(m)
                 /\ ~Settled(pendingResolver[m])

\* how the slot and the promises change in one step
PendingEntryStep ==
    /\ \A m \in ManagerIds :
          (pendingResolver'[m] # 0 /\ pendingResolver'[m] # pendingResolver[m])
             => /\ Len(flows') = Len(flows) + 1
                /\ pendingResolver'[m] = Len(flows')
    /\ \A f \in Started :
          (~Settled(f) /\ flows'[f].promise.state # "pending")
             <=> (pendingResolver[flows[f].mgr] = f /\ pendingResolver'[flows[f].mgr] = 0)

\* C6: a manager's slot holds at most one pending entry, an entry that is
\* present belongs to a flow of that manager whose promise is pending, an
\* entry appears only with the start of a new flow, and a promise is settled
\* in exactly the steps that clear its entry.
SinglePendingEntry == []PendingEntryInvariant /\ [][PendingEntryStep]_vars

\* an entry was cleared by settling its flow, and the manager holds a new one
SinglePendingEntryWitness ==
    \E m \in ManagerIds :
        /\ pendingResolver[m] # 0
        /\ \E f \in Started : flows[f].mgr = m /\ Settled(f)

\* ---- C7 -------------------------------------------------------------------------
\* a popup flow whose authorization was rejected
PopupErrorState ==
    \A f \in Started :
        (flows[f].kind = "popup" /\ flows[f].promise.state = "rejected")
           => /\ flows[f].promise.error \in ErrorCodes
              /\ pendingResolver[flows[f].mgr] # f
              /\ ~ExchangeStarted(f)
              /\ flows[f].result.state \in {"pending", "rejected"}
              /\ flows[f].result.state = "rejected"
                    => flows[f].result.error = flows[f].promise.error
              /\ flows[f].result.state = "pending" => ENABLED thenReaction(f)

\* a call with an error while a popup flow holds the pending entry
PopupErrorStep ==
    \A m \in ManagerIds :
        LET f == pendingResolver[m]
        IN  (/\ f # 0
             /\ flows[f].kind = "popup"
             /\ lastCall'[m].nth = lastCall[m].nth + 1
             /\ lastCall'[m].error # "")
               => /\ flows'[f].promise.state = "rejected"
                  /\ flows'[f].promise.error = lastCall'[m].error
                  /\ pendingResolver'[m] = 0

\* C7: a call of the notification point with an error while a signInPopup
\* flow holds the pending entry rejects that flow's promise with the reported
\* error code and clears the entry; the promise returned by signInPopup then
\* rejects with the same code and no token exchange is started for the flow.
PopupErrorRejects == []PopupErrorState /\ [][PopupErrorStep]_vars

\* signInPopup's promise has rejected with the code the popup reported
PopupErrorRejectsWitness ==
    \E f \in Started :
        /\ flows[f].kind = "popup"
        /\ flows[f].promise.request = f
        /\ flows[f].result.state = "rejected"
        /\ flows[f].result.error = "popup_closed"

\* ---- C8 -------------------------------------------------------------------------
\* a step that ends a token exchange
ExchangeFailureStep ==
    \A f \in Started :
        (flows[f].result.state = "exchanging" /\ flows'[f].result.state # "exchanging")
           => /\ flows'[f].result.state \in {"fulfilled", "rejected"}
              /\ flows'[f].result.state = "rejected"
                    => /\ flows'[f].result.error = TransportError
                       /\ pendingResolver' = pendingResolver
                       /\ notifications' = notifications
                       /\ lastCall' = lastCall
                       /\ \A g \in Started : flows'[g].promise = flows[g].promise

\* C8: the step in which a token exchange fails rejects the promise returned
\* to the flow's caller with the transport error and changes nothing else:
\* no call of the notification point, the pending-entry slots and every
\* authorization promise are as before.
ExchangeFailureBypassesNotifier == [][ExchangeFailureStep]_vars

\* an exchange has failed while a newer flow owns the manager's slot
ExchangeFailureWitness ==
    \E f \in Started :
        /\ flows[f].result.state = "rejected"
        /\ flows[f].result.error = TransportError
        /\ pendingResolver[flows[f].mgr] \notin {0, f}

\* ---- C9 -------------------------------------------------------------------------
\* C9: the scope string of every authorization request names openid.
ScopesContainOpenid ==
    \A f \in Started :
        flows[f].kind \in {"popup", "redirect"}
           => <<"openid">> \in Range(ScopeNames(flows[f].scope))

\* a request built after two constructions, one with additionalScopes: []
ScopesContainOpenidWitness ==
    /\ Len(managers) = 2
    /\ \E m \in 1..Len(managers) : managers[m].additionalScopes = Given(<<>>)
    /\ \E f \in Started : flows[f].kind = "popup"
    /\ \E f \in Started : flows[f].kind = "redirect"

\* ---- C10 ------------------------------------------------------------------------
\* C10: in the scope string of every authorization request no scope name
\* occurs more than once.
ScopesDeduplicated ==
    \A f \in Started :
        LET names == ScopeNames(flows[f].scope)
        IN  \A i, j \in 1..Len(names) : names[i] = names[j] => i = j

\* ---- C11 ------------------------------------------------------------------------
\* the scope names that manager m's option alone asks for
OwnScopes(m) ==
    {<<"openid">>} \cup
      (IF managers[m].additionalScopes.given
       THEN {<<x>> : x \in Range(managers[m].additionalScopes.items)}
       ELSE {<<"offline">>})

\* C11: the scope names in a request of a manager constructed with
\* additionalScopes: [] are exactly {openid}, and those of a manager
\* constructed without the option are exactly {openid, offline}, whichever
\* other managers exist.
ScopesDependOnOwnOption ==
    \A f \in Started :
        LET option == managers[flows[f].mgr].additionalScopes
        IN  (flows[f].kind \in {"popup", "redirect"}
               /\ option \in {Undefined, Given(<<>>)})
              => Range(ScopeNames(flows[f].scope)) = OwnScopes(flows[f].mgr)


\* ---- C12 ----
\* C12: requestUserInfo on a configuration without a user-info endpoint has
\* returned a promise that is already rejected with 'Could not find userinfo
\* endpoint', and no fetch and no token request has been issued.
NoEndpointRejectsWithoutFetch ==
    (http.op = "requestUserInfo" /\ ~http.userInfoEndpoint)
      => /\ http.phase = "done"
         /\ http.result = Rejected("Could not find userinfo endpoint")
         /\ http.fetches = 0
         /\ http.tokenRequests = 0

NoEndpointRejectsWitness ==
    /\ http.op = "requestUserInfo"
    /\ ~http.userInfoEndpoint
    /\ http.result.state = "rejected"

\* ---- C13 ----
\* a member counts as present when JavaScript takes it as true: an empty
\* string is not present
MessagePresent(j) ==
    /\ ~j.isNull
    /\ j.error.kind = "object"
    /\ j.error.hasMessage
    /\ j.error.message # ""
ErrorPresent(j) ==
    /\ ~j.isNull
    /\ j.error.kind # "absent"
    /\ (j.error.kind = "string" => j.error.str # "")
Success(status) == status >= 200 /\ status < 300
ParsedByRoutine ==
    http.phase = "done" /\ http.fetches = 1 /\ http.op \in {"requestSignOut", "requestUserInfo"}

\* C13: for every reply a fetch request got, an unparseable body gives
\* 'Unknown error. Could not parse error response' whatever the status;
\* otherwise a status in [200,300) gives the parsed body; otherwise the
\* rejection carries error.message if present, else error if present, else
\* 'Unknown error'.
ParseResponseMapping ==
    ParsedByRoutine =>
        LET status == http.reply.status
            body == http.reply.body
            json == http.reply.body.json
        IN  /\ ~body.parses
                 => http.result = Rejected("Unknown error. Could not parse error response")
            /\ (body.parses /\ Success(status)) => http.result = Fulfilled(json)
            /\ (body.parses /\ ~Success(status) /\ MessagePresent(json))
                 => http.result = Rejected(json.error.message)
            /\ (body.parses /\ ~Success(status) /\ ~MessagePresent(json)
                   /\ ErrorPresent(json) /\ json.error.kind = "string")
                 => http.result = Rejected(json.error.str)
            /\ (body.parses /\ ~Success(status) /\ ~MessagePresent(json)
                   /\ ErrorPresent(json) /\ json.error.kind = "object")
                 => http.result = Rejected("[object Object]")
            /\ (body.parses /\ ~Success(status) /\ ~MessagePresent(json)
                   /\ ~ErrorPresent(json))
                 => http.result = Rejected("Unknown error")

ParseResponseMappingWitness ==
    /\ ParsedByRoutine
    /\ http.reply.status = 200
    /\ ~http.reply.body.parses
    /\ http.result = Rejected("Unknown error. Could not parse error response")

\* ---- C14 ----
\* C14: a direct requestAccessToken whose token endpoint replied 400 with
\* {error: {message: "invalid_grant"}} is rejected with message
\* 'invalid_grant', and one whose endpoint replied 200 with an unparseable
\* body is rejected with 'Unknown error. Could not parse error response'.
ExchangeNormalizesReplies ==
    (http.phase = "done" /\ http.op = "requestAccessToken")
      => /\ (http.reply.status = 400
               /\ http.reply.body = Parsed(JsonObject(ErrorObject("invalid_grant"))))
              => http.result = Rejected("invalid_grant")
         /\ (http.reply.status = 200 /\ ~http.reply.body.parses)
              => http.result = Rejected("Unknown error. Could not parse error response")

\* ---- C15 ----
\* C15: the promise of a signInRedirect flow is settled only by a call of
\* the notification point made for that flow's own request, it is then
\* rejected and never fulfilled, and no token exchange is started for it.
RedirectSettlesOnlyOnError ==
    \A f \in Started :
        flows[f].kind = "redirect"
          => /\ flows[f].result.state = "pending"
             /\ Settled(f) => /\ flows[f].promise.state = "rejected"
                              /\ flows[f].promise.request = f

\* ---- C16 ----
\* the channel of popup flow f has reported a response or an error while f
\* was not superseded
PopupReported(f) ==
    /\ f \in Started
    /\ flows[f].kind = "popup"
    /\ flows[f].supersededBy = 0
    /\ handlers[f] = "reported"
ResultSettled(f) == f \in Started /\ flows[f].result.state \in {"fulfilled", "rejected"}

\* C16: when the channel of a signInPopup flow that is not superseded has
\* reported a response or an error (closing the popup is the error
\* 'popup_closed'), the promise signInPopup returned is eventually fulfilled
\* or rejected, given that queued reactions run and the token endpoint
\* replies.
PopupEventuallySettles ==
    \A f \in FlowIds : PopupReported(f) ~> ResultSettled(f)

\* a popup flow whose channel reported the user closing the popup has its
\* returned promise rejected with that error
PopupEventuallySettlesWitness ==
    \E f \in Started :
        /\ PopupReported(f)
        /\ flows[f].result.state = "rejected"
        /\ flows[f].result.error = "popup_closed"

\* ---- C17 ----
\* C17: a call of the notification point that carries neither a response nor
\* an error leaves every promise and the pending entry as they were; and
\* after such a call, a call with a response or an error that finds the
\* pending entry settles that entry's promise and clears the entry.
EmptyCallChangesNothing ==
    [][ \A m \in ManagerIds :
          /\ lastCall'[m].nulls = lastCall[m].nulls + 1
               => /\ flows' = flows
                  /\ pendingResolver' = pendingResolver
          /\ (lastCall[m].nulls >= 1 /\ lastCall'[m].nth = lastCall[m].nth + 1
                 /\ lastCall'[m].nulls = lastCall[m].nulls /\ pendingResolver[m] # 0)
               => /\ flows'[pendingResolver[m]].promise.state # "pending"
                  /\ lastCall'[m].found = pendingResolver[m]
                  /\ pendingResolver'[m] = 0
      ]_vars

\* a flow had a call carrying nothing and then one call with a response or
\* an error, which settled it
EmptyCallWitness ==
    \E m \in ManagerIds :
        /\ lastCall[m].nulls >= 1
        /\ lastCall[m].nth = 1
        /\ lastCall[m].found # 0
        /\ Settled(lastCall[m].found)

\* ---- C18 ----
\* the key the claim gives a network name: an omitted name is 'mainnet'
KeyOfName(n) == IF n.given THEN n.name ELSE "mainnet"
EnginesCreatedFor(k) == {i \in 1..Len(engineObjs) : engineObjs[i].key = k}
FirstCreated(k) ==
    CHOOSE i \in EnginesCreatedFor(k) : \A j \in EnginesCreatedFor(k) : i <= j

\* C18: every engine that was created is the one the map holds under its
\* key, so no key has two engines and none is ever removed; a getProvider
\* call with the name omitted or a network name returns the engine first
\* created for that key; and no call replaces or removes a map entry.
OneEnginePerKey ==
    /\ [](/\ \A i \in 1..Len(engineObjs) : engines[engineObjs[i].key] = i
          /\ (lastSdkCall.op = "getProvider" /\ lastSdkCall.networkName # NetworkName(""))
               => /\ EnginesCreatedFor(KeyOfName(lastSdkCall.networkName)) # {}
                  /\ lastSdkCall.returned = FirstCreated(KeyOfName(lastSdkCall.networkName)))
    /\ [][\A k \in NetworkKeys : engines[k] # 0 => engines'[k] = engines[k]]_vars

\* a getProvider call without a name returned the mainnet engine, which was
\* created before another engine and has been stopped since
OneEnginePerKeyWitness ==
    /\ lastSdkCall.op = "getProvider"
    /\ ~lastSdkCall.networkName.given
    /\ lastSdkCall.restarted
    /\ lastSdkCall.returned = engines["mainnet"]
    /\ lastSdkCall.returned < Len(engineObjs)

\* ---- C19 ----
\* C19: right after signOut every engine in the map is stopped; right after
\* an engine emitted an error with message 'Not signed in' that engine is
\* stopped; right after getProvider the engine it returned is running.
EngineLifecycle ==
    /\ lastSdkCall.op = "signOut"
         => \A k \in NetworkKeys : engines[k] # 0 => ~engineObjs[engines[k]].running
    /\ (lastSdkCall.op = "engineError" /\ lastSdkCall.message = "Not signed in")
         => ~engineObjs[lastSdkCall.returned].running
    /\ lastSdkCall.op = "getProvider"
         => /\ lastSdkCall.returned \in 1..Len(engineObjs)
            /\ engineObjs[lastSdkCall.returned].running

\* getProvider found an engine that had been stopped and returned it running
EngineLifecycleWitness ==
    /\ lastSdkCall.op = "getProvider"
    /\ lastSdkCall.restarted
    /\ engineObjs[lastSdkCall.returned].running

====
